---- MODULE Spec2Model ----
(***************************************************************************)
(* A model of the blog post generator (src/blog_generator/agents.py):      *)
(* the BlogPostGenerator class with its task builder, its generation       *)
(* entry point and its post store (list / load / save / delete), together  *)
(* with the module-level llm object the generator mutates.                 *)
(*                                                                         *)
(* Text is modelled as a sequence of one-character strings, so that the    *)
(* str.replace and re.sub calls of the source are computed character by    *)
(* character.  A fixed text inside which no pattern of the source matches  *)
(* (the folder name, a task description, a piece of the page template) is  *)
(* kept as one element.                                                    *)
(***************************************************************************)
EXTENDS Integers, Sequences, FiniteSets, TLC

VARIABLES
    fs,               \* the files on disk: each existing path and its data
    llm_temperature,  \* llm.temperature of the module-level llm object
    clock,            \* the wall clock, in ticks
    calls,            \* per calling thread: its generate_blog_post call
    posts,            \* the posts the generations that succeeded returned, in order
    nOps,             \* number of calls of the generator's methods so far
    last              \* the latest post store call: its arguments, the files
                      \* before and after it, and its result

vars == <<fs, llm_temperature, clock, calls, posts, nOps, last>>

(***************************************************************************)
(* Characters and text helpers (Python str methods).                       *)
(***************************************************************************)
None == "None"
CR == "\r"
LF == "\n"
SP == " "

StartsWith(s, pat) ==
    /\ Len(s) >= Len(pat)
    /\ SubSeq(s, 1, Len(pat)) = pat

\* s[i:] for a 1-based position i
From(s, i) == SubSeq(s, i, Len(s))

MinOf(S) == CHOOSE i \in S : \A j \in S : i <= j
MaxOf(S) == CHOOSE i \in S : \A j \in S : j <= i

\* the positions at which pat occurs in s
Occurrences(s, pat) ==
    {i \in 1..(Len(s) - Len(pat) + 1) : \A k \in 1..Len(pat) : s[i + k - 1] = pat[k]}

\* pat in s
Contains(s, pat) == Occurrences(s, pat) # {}

RECURSIVE Replace(_, _, _)
\* str.replace(old, new) for a non-empty old: every non-overlapping
\* occurrence, scanning from the left.
Replace(s, old, new) ==
    IF old = new \/ Occurrences(s, old) = {} THEN s
    ELSE LET i == MinOf(Occurrences(s, old))
         IN  SubSeq(s, 1, i - 1) \o new \o Replace(From(s, i + Len(old)), old, new)

EndsWith(s, pat) ==
    /\ Len(s) >= Len(pat)
    /\ SubSeq(s, Len(s) - Len(pat) + 1, Len(s)) = pat

DotMd == <<".", "m", "d">>
DotHtml == <<".", "h", "t", "m", "l">>

UpperCase ==
    <<"A", "B", "C", "D", "E", "F", "G", "H", "I", "J", "K", "L", "M",
      "N", "O", "P", "Q", "R", "S", "T", "U", "V", "W", "X", "Y", "Z">>
LowerCase ==
    <<"a", "b", "c", "d", "e", "f", "g", "h", "i", "j", "k", "l", "m",
      "n", "o", "p", "q", "r", "s", "t", "u", "v", "w", "x", "y", "z">>
Digit == <<"0", "1", "2", "3", "4", "5", "6", "7", "8", "9">>

Range(f) == {f[i] : i \in DOMAIN f}

\* Two characters outside ASCII, named: U+0130 (capital I with dot above), a
\* letter, and U+0307 (combining dot above), a mark that is not alphanumeric.
CapitalIDot == "U+0130"
CombiningDot == "U+0307"

IsSpace(c) == c \in {SP, LF, CR, "\t"}
\* [a-zA-Z]
IsAlpha(c) == c \in Range(UpperCase) \cup Range(LowerCase)
IsDigit(c) == c \in Range(Digit)
\* \w of a str pattern: the alphanumeric characters of Unicode and "_"
IsWord(c) == IsAlpha(c) \/ IsDigit(c) \/ c = "_" \/ c = CapitalIDot

LowerChar(c) ==
    IF c \in Range(UpperCase)
    THEN LowerCase[CHOOSE i \in DOMAIN UpperCase : UpperCase[i] = c]
    ELSE c

RECURSIVE Lower(_)
\* str.lower(): character by character, except that U+0130 becomes the two
\* characters "i" and U+0307.
Lower(s) ==
    IF Occurrences(s, <<CapitalIDot>>) = {}
    THEN [i \in DOMAIN s |-> LowerChar(s[i])]
    ELSE LET i == MinOf(Occurrences(s, <<CapitalIDot>>))
         IN  [k \in 1..(i - 1) |-> LowerChar(s[k])] \o <<"i", CombiningDot>>
                 \o Lower(From(s, i + 1))

RECURSIVE LStrip(_)
LStrip(s) == IF s # <<>> /\ IsSpace(Head(s)) THEN LStrip(Tail(s)) ELSE s

RECURSIVE RStrip(_)
RStrip(s) ==
    IF s # <<>> /\ IsSpace(s[Len(s)]) THEN RStrip(SubSeq(s, 1, Len(s) - 1)) ELSE s

\* str.strip()
Strip(s) == RStrip(LStrip(s))

RECURSIVE IntToStr(_)
\* str(n) for n >= 0
IntToStr(n) ==
    IF n < 10 THEN <<Digit[n + 1]>> ELSE IntToStr(n \div 10) \o <<Digit[(n % 10) + 1]>>

Max(a, b) == IF a >= b THEN a ELSE b

(***************************************************************************)
(* Slug derivation, as generate_blog_post computes it for the file name    *)
(* and for the anchors of the table of contents.                           *)
(***************************************************************************)
IsSlugSep(c) == c = "-" \/ IsSpace(c)

\* re.sub(r'[^\w\s-]', '', text)
RemoveNonSlugChars(text) ==
    SelectSeq(text, LAMBDA c : IsWord(c) \/ IsSpace(c) \/ c = "-")

RECURSIVE CollapseSeparators(_)
\* re.sub(r'[-\s]+', '-', text)
CollapseSeparators(s) ==
    IF s = <<>> THEN <<>>
    ELSE IF IsSlugSep(Head(s))
         THEN IF Len(s) > 1 /\ IsSlugSep(s[2])
              THEN CollapseSeparators(Tail(s))
              ELSE <<"-">> \o CollapseSeparators(Tail(s))
         ELSE <<Head(s)>> \o CollapseSeparators(Tail(s))

Slug(text) == CollapseSeparators(Lower(Strip(RemoveNonSlugChars(text))))

(***************************************************************************)
(* _clean_markdown                                                         *)
(***************************************************************************)
\* The backtick character, named because the lexer of the tools rejects it.
BT == "backtick"

\* three backticks
Fence == <<BT, BT, BT>>
FenceMarkdown == Fence \o <<"m", "a", "r", "k", "d", "o", "w", "n">>

\* ^ under re.MULTILINE: position i starts a line
AtLineStart(s, i) == i = 1 \/ s[i - 1] = LF

\* $ under re.MULTILINE: position i is the end of the text or stands before "\n"
AtLineEnd(s, i) == i > Len(s) \/ s[i] = LF

RECURSIVE SpaceRun(_, _)
\* the number of whitespace characters from position i on
SpaceRun(s, i) == IF i <= Len(s) /\ IsSpace(s[i]) THEN 1 + SpaceRun(s, i + 1) ELSE 0

RECURSIVE AlphaRun(_, _)
AlphaRun(s, i) == IF i <= Len(s) /\ IsAlpha(s[i]) THEN 1 + AlphaRun(s, i + 1) ELSE 0

\* The lengths j of \s* after a fence at i for which $ matches.
FenceLineTails(s, i) == {j \in 0..SpaceRun(s, i + 3) : AtLineEnd(s, i + 3 + j)}

\* r'^<fence>\s*$' (re.MULTILINE) matches at position i
FenceLineAt(s, i) ==
    /\ AtLineStart(s, i)
    /\ i + 2 <= Len(s)
    /\ SubSeq(s, i, i + 2) = Fence
    /\ FenceLineTails(s, i) # {}

RECURSIVE SubFenceLines(_, _)
\* re.sub(r'^<fence>\s*$', '', s, flags=re.MULTILINE), from position i on
SubFenceLines(s, i) ==
    LET at == {k \in i..Len(s) : FenceLineAt(s, k)}
    IN  IF at = {} THEN From(s, i)
        ELSE LET k == MinOf(at)
             IN  SubSeq(s, i, k - 1)
                     \o SubFenceLines(s, k + 3 + MaxOf(FenceLineTails(s, k)))

\* r'<fence>[a-zA-Z]+\n' matches at position i
LanguageTagAt(s, i) ==
    /\ i + 2 <= Len(s)
    /\ SubSeq(s, i, i + 2) = Fence
    /\ AlphaRun(s, i + 3) >= 1
    /\ i + 3 + AlphaRun(s, i + 3) <= Len(s)
    /\ s[i + 3 + AlphaRun(s, i + 3)] = LF

RECURSIVE SubLanguageTags(_, _)
\* re.sub(r'<fence>[a-zA-Z]+\n', '<fence>\n', s), from position i on
SubLanguageTags(s, i) ==
    LET at == {k \in i..Len(s) : LanguageTagAt(s, k)}
    IN  IF at = {} THEN From(s, i)
        ELSE LET k == MinOf(at)
             IN  SubSeq(s, i, k - 1) \o Fence \o <<LF>>
                     \o SubLanguageTags(s, k + 3 + AlphaRun(s, k + 3) + 1)

\* _clean_markdown without the removal of the fence that carries the tag
\* markdown: every fence is removed and the tag stays.
_clean_markdown_tag_left(content) ==
    LET unwrapped == Replace(content, Fence, <<>>)
        noFenceLines == SubFenceLines(unwrapped, 1)
        noTags == SubLanguageTags(noFenceLines, 1)
    IN  Strip(noTags)

\* _clean_markdown removing only the fences that carry the tag markdown.
_clean_markdown_other_fences_left(content) ==
    LET unwrapped == Replace(content, FenceMarkdown, <<>>)
        noFenceLines == SubFenceLines(unwrapped, 1)
        noTags == SubLanguageTags(noFenceLines, 1)
    IN  Strip(noTags)

\* _clean_markdown(content)
_clean_markdown(content) ==
    LET unwrapped == Replace(Replace(content, FenceMarkdown, <<>>), Fence, <<>>)
        noFenceLines == SubFenceLines(unwrapped, 1)
        noTags == SubLanguageTags(noFenceLines, 1)
    IN  Strip(noTags)

(***************************************************************************)
(* _validate_content                                                       *)
(***************************************************************************)
MinContentLength == 1000

TechTerms ==
    { <<"c", "o", "d", "e">>,
      <<"p", "r", "o", "g", "r", "a", "m", "m", "i", "n", "g">>,
      <<"p", "y", "t", "h", "o", "n">>,
      <<"j", "a", "v", "a", "s", "c", "r", "i", "p", "t">> }

\* re.search(r'\[\d+\]|\[\w+\d*\]|Source:', content)
HasCitation(content) ==
    \/ \E i \in 1..Len(content) :
          /\ content[i] = "["
          /\ \E j \in (i + 2)..Len(content) :
                /\ content[j] = "]"
                /\ \A k \in (i + 1)..(j - 1) : IsWord(content[k])
    \/ Contains(content, <<"S", "o", "u", "r", "c", "e", ":">>)

TooShort == "Content may be too short for a comprehensive blog post"
NoImages == "No images found in content"
NoHeaders == "No proper header structure found"
NoCodeExamples == "Technical topic with no code examples"
NoCitations == "No citations or references found"

\* _validate_content with the length test off by one.
_validate_content_length_inclusive(content) ==
    (IF Len(content) <= MinContentLength THEN <<TooShort>> ELSE <<>>)
    \o (IF ~Contains(content, <<"!", "[">>) /\ ~Contains(content, <<"]", "(", "h", "t", "t", "p">>)
        THEN <<NoImages>> ELSE <<>>)
    \o (IF ~Contains(content, <<"#", SP>>) /\ ~Contains(content, <<"#", "#", SP>>)
        THEN <<NoHeaders>> ELSE <<>>)
    \o (IF /\ \E tech \in TechTerms : Contains(Lower(content), tech)
           /\ ~Contains(content, Fence)
        THEN <<NoCodeExamples>> ELSE <<>>)
    \o (IF ~HasCitation(content) THEN <<NoCitations>> ELSE <<>>)

\* _validate_content(content)
_validate_content(content) ==
    (IF Len(content) < MinContentLength THEN <<TooShort>> ELSE <<>>)
    \o (IF ~Contains(content, <<"!", "[">>) /\ ~Contains(content, <<"]", "(", "h", "t", "t", "p">>)
        THEN <<NoImages>> ELSE <<>>)
    \o (IF ~Contains(content, <<"#", SP>>) /\ ~Contains(content, <<"#", "#", SP>>)
        THEN <<NoHeaders>> ELSE <<>>)
    \o (IF /\ \E tech \in TechTerms : Contains(Lower(content), tech)
           /\ ~Contains(content, Fence)
        THEN <<NoCodeExamples>> ELSE <<>>)
    \o (IF ~HasCitation(content) THEN <<NoCitations>> ELSE <<>>)

(***************************************************************************)
(* Header and table of contents, as generate_blog_post builds them.        *)
(***************************************************************************)
FeaturedImageMarker == <<"!", "[", "F", "e", "a", "t", "u", "r", "e", "d", SP, "I", "m", "a", "g", "e", "]">>
TocHeading == <<"#", "#", SP, "T", "a", "b", "l", "e", SP, "o", "f", SP, "C", "o", "n", "t", "e", "n", "t", "s">>

RECURSIVE HashRun(_, _)
HashRun(s, i) == IF i <= Len(s) /\ s[i] = "#" THEN 1 + HashRun(s, i + 1) ELSE 0

\* the first position from i on at which $ matches
LineEnd(s, i) == MinOf({k \in i..(Len(s) + 1) : AtLineEnd(s, k)})

\* A match of r'^(#{lo,hi})\s+(.+)$' (re.MULTILINE) starting at position i:
\* the hashes are followed by whitespace, so the group is the whole run of
\* hashes; \s+ is greedy and gives back characters until a character other
\* than "\n" is left for (.+), which then runs to the end of its line.
MatchHeading(s, i, lo, hi) ==
    LET n == HashRun(s, i)
        w == SpaceRun(s, i + n)
        js == {j \in 1..w : i + n + j <= Len(s) /\ s[i + n + j] # LF}
    IN  IF AtLineStart(s, i) /\ lo <= n /\ n <= hi /\ js # {}
        THEN LET j == MaxOf(js)
                 q == i + n + j
                 e == LineEnd(s, q)
             IN  [ok |-> TRUE, level |-> n, title |-> SubSeq(s, q, e - 1), end |-> e]
        ELSE [ok |-> FALSE, level |-> 0, title |-> <<>>, end |-> i]

RECURSIVE FindHeadings(_, _)
\* re.findall(r'^(#{2,4})\s+(.+)$', s, re.MULTILINE), from position i on
FindHeadings(s, i) ==
    LET at == {k \in i..Len(s) : MatchHeading(s, k, 2, 4).ok}
    IN  IF at = {} THEN <<>>
        ELSE LET m == MatchHeading(s, MinOf(at), 2, 4)
             IN  <<[level |-> m.level, title |-> m.title]>> \o FindHeadings(s, m.end)

\* re.search(r'^#{n}\s+.+$', s, re.MULTILINE): the end of the first match,
\* 0 when there is none
SearchHeading(s, n) ==
    LET at == {k \in 1..Len(s) : MatchHeading(s, k, n, n).ok}
    IN  IF at = {} THEN 0 ELSE MatchHeading(s, MinOf(at), n, n).end

RECURSIVE Indent(_)
\* "  " * k
Indent(k) == IF k <= 0 THEN <<>> ELSE <<SP, SP>> \o Indent(k - 1)

RECURSIVE TocEntries(_)
TocEntries(headings) ==
    IF headings = <<>> THEN <<>>
    ELSE LET h == Head(headings)
         IN  Indent(h.level - 2) \o <<"-", SP, "[">> \o h.title \o <<"]", "(", "#">>
                 \o Slug(h.title) \o <<")", LF>> \o TocEntries(Tail(headings))

BuildToc(headings) == TocHeading \o <<LF, LF>> \o TocEntries(headings) \o <<LF>>

\* final_content[:pos] + "\n\n" + toc + final_content[pos:], e = pos + 1
InsertToc(final_content, e, toc) ==
    SubSeq(final_content, 1, e - 1) \o <<LF, LF>> \o toc \o From(final_content, e)

\* The step without the test for a table of contents already present.
AddToc_without_present_test(final_content, add_toc) ==
    IF add_toc
    THEN LET headings == FindHeadings(final_content, 1)
             intro_end == SearchHeading(final_content, 2)
             first_heading == SearchHeading(final_content, 1)
         IN  IF headings = <<>> THEN final_content
             ELSE IF intro_end # 0
                  THEN InsertToc(final_content, intro_end, BuildToc(headings))
                  ELSE IF first_heading # 0
                       THEN InsertToc(final_content, first_heading, BuildToc(headings))
                       ELSE final_content
    ELSE final_content

\* The "Add table of contents if requested" step.
AddToc(final_content, add_toc) ==
    IF add_toc /\ ~Contains(final_content, TocHeading)
    THEN LET headings == FindHeadings(final_content, 1)
             intro_end == SearchHeading(final_content, 2)
             first_heading == SearchHeading(final_content, 1)
         IN  IF headings = <<>> THEN final_content
             ELSE IF intro_end # 0
                  THEN InsertToc(final_content, intro_end, BuildToc(headings))
                  ELSE IF first_heading # 0
                       THEN InsertToc(final_content, first_heading, BuildToc(headings))
                       ELSE final_content
    ELSE final_content

MinReadingTime == 5
CharsPerMinute == 1000

\* The header step with the reading time taken from the text after the title
\* line has been put before it.
AddHeader_reading_time_with_title(content, topic, image_url, published) ==
    IF ~Contains(content, FeaturedImageMarker)
    THEN LET headed == <<"#", SP>> \o topic \o <<LF, LF>> \o content
             reading_time == Max(MinReadingTime, Len(headed) \div CharsPerMinute)
         IN  <<"#", SP>> \o topic \o <<LF, LF>>
                 \o <<">", SP, "**Reading time:**", SP>> \o IntToStr(reading_time)
                 \o <<SP, "min | **Difficulty:** Intermediate | **Published:**", SP>>
                 \o published \o <<LF, LF>>
                 \o FeaturedImageMarker \o <<"(">> \o image_url \o <<")", LF, LF>>
                 \o content
    ELSE content

\* The header prepended when the text has no featured image: the title line,
\* the metadata line (its fixed words are single elements) and the image line.
AddHeader(content, topic, image_url, published) ==
    IF ~Contains(content, FeaturedImageMarker)
    THEN LET reading_time == Max(MinReadingTime, Len(content) \div CharsPerMinute)
         IN  <<"#", SP>> \o topic \o <<LF, LF>>
                 \o <<">", SP, "**Reading time:**", SP>> \o IntToStr(reading_time)
                 \o <<SP, "min | **Difficulty:** Intermediate | **Published:**", SP>>
                 \o published \o <<LF, LF>>
                 \o FeaturedImageMarker \o <<"(">> \o image_url \o <<")", LF, LF>>
                 \o content
    ELSE content

(***************************************************************************)
(* Bounds and the inputs the callers supply.                               *)
(***************************************************************************)
MaxOps == 2
MaxClock == 3
TicksPerSecond == 2

output_folder == <<"generated_posts", "/">>

\* The threads on which the user interface calls the generator.
Threads == {1, 2}

\* llm = LLM(..., temperature=0.7, ...); temperatures are in tenths.
InitialTemperature == 7

Request(topic, focus, tone, length, add_toc, temperature) ==
    [topic |-> topic,
     focus |-> focus,
     date_range |-> None,
     add_toc |-> add_toc,
     seo_optimized |-> TRUE,
     tone |-> tone,
     length |-> length,
     temperature |-> temperature]

\* Two requests whose topics have the same slug, with different focus, tone
\* and length, with and without a table of contents, at two temperatures.
Requests ==
    { Request(<<"A", "I">>, <<"latest trends and developments">>,
              <<"professional">>, <<"medium">>, TRUE, 2),
      Request(<<"a", "i", "!">>, <<"diagnostic applications">>,
              <<"technical">>, <<"long">>, FALSE, 9) }

\* What crew.kickoff() may return: an object with the attribute raw_output,
\* and one with none of the probed attributes.
CrewResults ==
    { [raw_output |-> Fence \o <<"m", "a", "r", "k", "d", "o", "w", "n", LF, "#", "#", SP, "A", LF, "#", "#", "#", SP, "B", LF>> \o Fence,
       str |-> <<"CrewOutput">>],
      [str |-> <<"h", "i">>] }

\* What find_image may return (one of self.default_images).
default_images ==
    { <<"h", "t", "t", "p", "s", ":", "/", "/">>
          \o <<"images.unsplash.com/photo-1620712943543-bcc4688e7485">> }

\* Paths handed to the post store: a generated-style name, a name in which
\* ".md" occurs twice, a name without ".md".
PathInputs ==
    { output_folder \o <<"a", "_", "1", ".", "m", "d">>,
      output_folder \o <<"v", ".", "m", "d", ".", "m", "d">>,
      <<"n", ".", "t", "x", "t">> }

ContentInputs ==
    { <<"h", "i">>,
      <<"a", CR, LF, "b">>,
      <<"#", SP, "T", LF>> }

(***************************************************************************)
(* Text files: open(path, mode, encoding='utf-8') with the default newline *)
(* handling of text mode.                                                   *)
(***************************************************************************)
\* os.linesep of the platform the program runs on (POSIX).
LineSep == <<LF>>

\* f.write(text): every "\n" is written as os.linesep.
WriteText(text) == Replace(text, <<LF>>, LineSep)

\* f.read(): universal newlines, "\r\n" and "\r" are read as "\n".
ReadText(data) == Replace(Replace(data, <<CR, LF>>, <<LF>>), <<CR>>, <<LF>>)

Exists(files, path) == path \in DOMAIN files

Put(files, path, data) ==
    [q \in DOMAIN files \cup {path} |-> IF q = path THEN data ELSE files[q]]

Remove(files, path) == [q \in DOMAIN files \ {path} |-> files[q]]

(***************************************************************************)
(* Rendering.                                                              *)
(***************************************************************************)
\* markdown.markdown(text, extensions=[...]): the library normalises the
\* line endings, strips the text and wraps it in block markup.
Markdown(text) ==
    LET norm == Strip(ReadText(text))
    IN  IF norm = <<>> THEN <<>> ELSE <<"<p>">> \o norm \o <<"</p>">>

\* The f-string html_template around {title} and {html_content}.
HtmlTemplate(title, html_content) ==
    <<"<!DOCTYPE html>", "<title>">> \o title \o <<"</title>", "<body>">>
        \o html_content \o <<"</body>">>

EditedTitle == <<"Edited Post">>

\* html_path = filepath.replace('.md', '.html')
HtmlPath(filepath) == Replace(filepath, DotMd, DotHtml)

(***************************************************************************)
(* _create_tasks: the five Task objects.  A task is named by the variable  *)
(* the source binds it to; context lists the tasks it is given, by name.   *)
(***************************************************************************)
Task(name, description, expected_output, agent, context) ==
    [name |-> name, description |-> description,
     expected_output |-> expected_output, agent |-> agent, context |-> context]

\* _create_tasks with the editor given the draft only.
_create_tasks_editor_without_fact_check(topic, focus, tone, length) ==
    LET research_task ==
            Task("research_task",
                 <<"Conduct thorough research on '">> \o topic
                     \o <<"' with focus on ">> \o focus
                     \o <<". Search the web for the most relevant and recent information.">>,
                 <<"A comprehensive research report on '">> \o topic \o <<"' covering: ...">>,
                 "researcher", <<>>)
        write_task ==
            Task("write_task",
                 <<"Write a ">> \o length \o <<" blog post about '">> \o topic
                     \o <<"' focusing on ">> \o focus \o <<" in a ">> \o tone
                     \o <<" tone. ...">>,
                 <<"A complete blog post in markdown format about '">> \o topic
                     \o <<"' with: ...">>,
                 "writer", <<"research_task">>)
        fact_check_task ==
            Task("fact_check_task",
                 <<"Review the blog post about '">> \o topic
                     \o <<"' and verify all technical claims.">>,
                 <<"A detailed fact-checking report with specific corrections">>,
                 "fact_checker", <<"write_task">>)
        edit_task ==
            Task("edit_task",
                 <<"Review and edit the blog post about '">> \o topic \o <<"'. ...">>,
                 <<"A polished, publication-ready blog post in markdown format">>,
                 "editor", <<"write_task">>)
        illustrate_task ==
            Task("illustrate_task",
                 <<"Find appropriate visual elements for the blog post about '">>
                     \o topic \o <<"'. ...">>,
                 <<"Markdown formatted image references positioned in the post">>,
                 "illustrator", <<"edit_task">>)
    IN  <<research_task, write_task, fact_check_task, edit_task, illustrate_task>>

\* _create_tasks returning the edit task ahead of the fact check it reads.
_create_tasks_edit_before_fact_check(topic, focus, tone, length) ==
    LET research_task ==
            Task("research_task",
                 <<"Conduct thorough research on '">> \o topic
                     \o <<"' with focus on ">> \o focus
                     \o <<". Search the web for the most relevant and recent information.">>,
                 <<"A comprehensive research report on '">> \o topic \o <<"' covering: ...">>,
                 "researcher", <<>>)
        write_task ==
            Task("write_task",
                 <<"Write a ">> \o length \o <<" blog post about '">> \o topic
                     \o <<"' focusing on ">> \o focus \o <<" in a ">> \o tone
                     \o <<" tone. ...">>,
                 <<"A complete blog post in markdown format about '">> \o topic
                     \o <<"' with: ...">>,
                 "writer", <<"research_task">>)
        fact_check_task ==
            Task("fact_check_task",
                 <<"Review the blog post about '">> \o topic
                     \o <<"' and verify all technical claims.">>,
                 <<"A detailed fact-checking report with specific corrections">>,
                 "fact_checker", <<"write_task">>)
        edit_task ==
            Task("edit_task",
                 <<"Review and edit the blog post about '">> \o topic \o <<"'. ...">>,
                 <<"A polished, publication-ready blog post in markdown format">>,
                 "editor", <<"write_task", "fact_check_task">>)
        illustrate_task ==
            Task("illustrate_task",
                 <<"Find appropriate visual elements for the blog post about '">>
                     \o topic \o <<"'. ...">>,
                 <<"Markdown formatted image references positioned in the post">>,
                 "illustrator", <<"edit_task">>)
    IN  <<research_task, write_task, edit_task, fact_check_task, illustrate_task>>

\* _create_tasks(topic, focus, tone, length)
_create_tasks(topic, focus, tone, length) ==
    LET research_task ==
            Task("research_task",
                 <<"Conduct thorough research on '">> \o topic
                     \o <<"' with focus on ">> \o focus
                     \o <<". Search the web for the most relevant and recent information.">>,
                 <<"A comprehensive research report on '">> \o topic \o <<"' covering: ...">>,
                 "researcher", <<>>)
        write_task ==
            Task("write_task",
                 <<"Write a ">> \o length \o <<" blog post about '">> \o topic
                     \o <<"' focusing on ">> \o focus \o <<" in a ">> \o tone
                     \o <<" tone. ...">>,
                 <<"A complete blog post in markdown format about '">> \o topic
                     \o <<"' with: ...">>,
                 "writer", <<"research_task">>)
        fact_check_task ==
            Task("fact_check_task",
                 <<"Review the blog post about '">> \o topic
                     \o <<"' and verify all technical claims.">>,
                 <<"A detailed fact-checking report with specific corrections">>,
                 "fact_checker", <<"write_task">>)
        edit_task ==
            Task("edit_task",
                 <<"Review and edit the blog post about '">> \o topic \o <<"'. ...">>,
                 <<"A polished, publication-ready blog post in markdown format">>,
                 "editor", <<"write_task", "fact_check_task">>)
        illustrate_task ==
            Task("illustrate_task",
                 <<"Find appropriate visual elements for the blog post about '">>
                     \o topic \o <<"'. ...">>,
                 <<"Markdown formatted image references positioned in the post">>,
                 "illustrator", <<"edit_task">>)
    IN  <<research_task, write_task, fact_check_task, edit_task, illustrate_task>>

(***************************************************************************)
(* generate_blog_post: the try block.                                      *)
(***************************************************************************)
\* The hasattr probing of the object kickoff returned; "str" is str(result).
ExtractContent(result) ==
    IF "raw_output" \in DOMAIN result THEN result.raw_output
    ELSE IF "result" \in DOMAIN result THEN result.result
    ELSE IF "output" \in DOMAIN result THEN result.output
    ELSE result.str

\* datetime.now().strftime('%Y%m%d_%H%M%S') of a clock reading in ticks:
\* the fraction of the second is dropped.
Strftime(now) ==
    LET sec == (now \div TicksPerSecond) % 60
    IN  <<"2", "0", "2", "4", "0", "1", "0", "1", "_", "0", "0", "0", "0">> \o <<Digit[(sec \div 10) + 1], Digit[(sec % 10) + 1]>>

\* datetime.now().strftime('%B %d, %Y')
StrftimeDate(now) == <<"January 01, 2024">>

\* os.path.join(self.output_folder, filename)
FilePath(topic, now) ==
    output_folder \o Slug(topic) \o <<"_">> \o Strftime(now) \o DotMd

\* _analyze_sentiment(content[:1000]) if len(content) > 0 else None: the
\* scores are a function of the text given to the analyzer.
Sentiment(content) ==
    IF Len(content) > 0
    THEN [scores_of |-> SubSeq(content, 1, IF Len(content) < 1000 THEN Len(content) ELSE 1000)]
    ELSE None

\* The place of the try block that raises: "kickoff" is crew.kickoff(), "post"
\* the steps before the first file is opened (or its opening).
GenFaults == {"none", "post", "write_md", "html", "write_html"}

ErrorRecord(request, fault) ==
    [error |-> fault, topic |-> request.topic,
     content |-> <<"Error generating content: ", fault>>]

\* generate_blog_post leaving the try block when the validation reports an
\* issue.
FinishGeneration_validation_aborts(files, request, raw, image_url, now, fault) ==
    LET content == _clean_markdown(raw)
        validation_issues == _validate_content(content)
        sentiment == Sentiment(content)
        stop == IF fault = "none" /\ validation_issues # <<>> THEN "post" ELSE fault
        filepath == FilePath(request.topic, now)
        withHeader == AddHeader(content, request.topic, image_url, StrftimeDate(now))
        final_content == AddToc(withHeader, request.add_toc)
        html_content == Markdown(final_content)
        html_path == HtmlPath(filepath)
        html_template == HtmlTemplate(request.topic, html_content)
        afterMd ==
            CASE stop \in {"kickoff", "post"} -> files
              [] stop = "write_md" -> Put(files, filepath, <<>>)
              [] OTHER -> Put(files, filepath, WriteText(final_content))
        afterHtml ==
            CASE stop \in {"kickoff", "post", "write_md", "html"} -> afterMd
              [] stop = "write_html" -> Put(afterMd, html_path, <<>>)
              [] OTHER -> Put(afterMd, html_path, WriteText(html_template))
    IN  [files |-> afterHtml,
         ret |-> IF stop = "none"
                 THEN [topic |-> request.topic, focus |-> request.focus,
                       content |-> final_content, html_content |-> html_template,
                       image_url |-> image_url, filepath |-> filepath,
                       html_path |-> html_path,
                       validation_issues |-> validation_issues,
                       sentiment |-> sentiment]
                 ELSE ErrorRecord(request, stop)]

\* generate_blog_post adding the table of contents only when seo_optimized
\* is set.
FinishGeneration_toc_when_seo_optimized(files, request, raw, image_url, now, fault) ==
    LET content == _clean_markdown(raw)
        validation_issues == _validate_content(content)
        sentiment == Sentiment(content)
        filepath == FilePath(request.topic, now)
        withHeader == AddHeader(content, request.topic, image_url, StrftimeDate(now))
        final_content == AddToc(withHeader, request.add_toc /\ request.seo_optimized)
        html_content == Markdown(final_content)
        html_path == HtmlPath(filepath)
        html_template == HtmlTemplate(request.topic, html_content)
        afterMd ==
            CASE fault \in {"kickoff", "post"} -> files
              [] fault = "write_md" -> Put(files, filepath, <<>>)
              [] OTHER -> Put(files, filepath, WriteText(final_content))
        afterHtml ==
            CASE fault \in {"kickoff", "post", "write_md", "html"} -> afterMd
              [] fault = "write_html" -> Put(afterMd, html_path, <<>>)
              [] OTHER -> Put(afterMd, html_path, WriteText(html_template))
    IN  [files |-> afterHtml,
         ret |-> IF fault = "none"
                 THEN [topic |-> request.topic, focus |-> request.focus,
                       content |-> final_content, html_content |-> html_template,
                       image_url |-> image_url, filepath |-> filepath,
                       html_path |-> html_path,
                       validation_issues |-> validation_issues,
                       sentiment |-> sentiment]
                 ELSE ErrorRecord(request, fault)]

\* The try block and the except branch.  raw is the text taken from the
\* crew's result, image_url what find_image returns, now the clock reading.
FinishGeneration(files, request, raw, image_url, now, fault) ==
    LET content == _clean_markdown(raw)
        validation_issues == _validate_content(content)
        sentiment == Sentiment(content)
        filepath == FilePath(request.topic, now)
        withHeader == AddHeader(content, request.topic, image_url, StrftimeDate(now))
        final_content == AddToc(withHeader, request.add_toc)
        html_content == Markdown(final_content)
        html_path == HtmlPath(filepath)
        html_template == HtmlTemplate(request.topic, html_content)
        afterMd ==
            CASE fault \in {"kickoff", "post"} -> files
              [] fault = "write_md" -> Put(files, filepath, <<>>)
              [] OTHER -> Put(files, filepath, WriteText(final_content))
        afterHtml ==
            CASE fault \in {"kickoff", "post", "write_md", "html"} -> afterMd
              [] fault = "write_html" -> Put(afterMd, html_path, <<>>)
              [] OTHER -> Put(afterMd, html_path, WriteText(html_template))
    IN  [files |-> afterHtml,
         ret |-> IF fault = "none"
                 THEN [topic |-> request.topic, focus |-> request.focus,
                       content |-> final_content, html_content |-> html_template,
                       image_url |-> image_url, filepath |-> filepath,
                       html_path |-> html_path,
                       validation_issues |-> validation_issues,
                       sentiment |-> sentiment]
                 ELSE ErrorRecord(request, fault)]

\* list_generated_posts(): the paths of the files of the output folder whose
\* names end in .md, as a set (the list is ordered by modification time).
list_generated_posts(files) ==
    { path \in DOMAIN files :
          /\ StartsWith(path, output_folder)
          /\ ~Contains(From(path, Len(output_folder) + 1), <<"/">>)
          /\ EndsWith(path, DotMd) }

(***************************************************************************)
(* Post store.  Each operation is an operator from the files and the       *)
(* arguments to the files afterwards and the value returned; fault names   *)
(* the file operation that raises during the call, "none" when none does.  *)
(***************************************************************************)
SaveFaults == {"none", "open_md", "write_md", "html", "write_html"}
DeleteFaults == {"none", "remove_md", "remove_html"}
LoadFaults == {"none", "read"}

ErrorLoadingPost(fault) ==
    <<"Error loading post: ">>
        \o (IF fault = "read" THEN <<"[Errno 13] Permission denied">>
                              ELSE <<"[Errno 2] No such file or directory">>)

\* load_post_for_editing(filepath): the text read, or, on any exception,
\* the message built in the except branch; both are returned as a str.
load_post_for_editing(files, filepath, fault) ==
    IF Exists(files, filepath) /\ fault = "none"
    THEN [outcome |-> "returned", value |-> ReadText(files[filepath])]
    ELSE [outcome |-> "returned", value |-> ErrorLoadingPost(fault)]

\* os.path.basename(filepath)
Basename(filepath) ==
    LET S == Occurrences(filepath, <<"/">>)
    IN  IF S = {} THEN filepath ELSE From(filepath, MaxOf(S) + 1)

\* load_post(filepath) of the user interface: the editor is filled with what
\* load_post_for_editing returned, the preview with the rendered file.
load_post(files, filepath, fault) ==
    IF filepath = <<>>
    THEN [outcome |-> "raised", exception |-> "gr.Error"]
    ELSE LET content == load_post_for_editing(files, filepath, fault).value
             html_path == HtmlPath(filepath)
         IN  IF Exists(files, html_path)
             THEN [outcome |-> "returned",
                   value |-> [edit_md |-> content,
                              edit_html_preview |-> ReadText(files[html_path]),
                              edit_status |-> <<"Loaded: ">> \o Basename(filepath)]]
             ELSE [outcome |-> "raised", exception |-> "FileNotFoundError"]

\* save_edited_post rendering the file as it was before the content is
\* written to it.
save_edited_post_renders_old_file(files, filepath, content, fault) ==
    LET html_path == HtmlPath(filepath)
        html_content == IF Exists(files, filepath)
                        THEN Markdown(ReadText(files[filepath]))
                        ELSE Markdown(content)
        html_template == HtmlTemplate(EditedTitle, html_content)
        afterMd ==
            CASE fault = "open_md" -> files
              [] fault = "write_md" -> Put(files, filepath, <<>>)
              [] OTHER -> Put(files, filepath, WriteText(content))
        afterHtml ==
            CASE fault \in {"open_md", "write_md", "html"} -> afterMd
              [] fault = "write_html" -> Put(afterMd, html_path, <<>>)
              [] OTHER -> Put(afterMd, html_path, WriteText(html_template))
    IN  [files |-> afterHtml,
         ret |-> IF fault = "none"
                 THEN [status |-> "success", filepath |-> filepath,
                       html_path |-> html_path, html_content |-> html_template]
                 ELSE [status |-> "error", error |-> fault]]

\* save_edited_post(filepath, content)
save_edited_post(files, filepath, content, fault) ==
    LET html_path == HtmlPath(filepath)
        html_content == Markdown(content)
        html_template == HtmlTemplate(EditedTitle, html_content)
        afterMd ==
            CASE fault = "open_md" -> files
              [] fault = "write_md" -> Put(files, filepath, <<>>)
              [] OTHER -> Put(files, filepath, WriteText(content))
        afterHtml ==
            CASE fault \in {"open_md", "write_md", "html"} -> afterMd
              [] fault = "write_html" -> Put(afterMd, html_path, <<>>)
              [] OTHER -> Put(afterMd, html_path, WriteText(html_template))
    IN  [files |-> afterHtml,
         ret |-> IF fault = "none"
                 THEN [status |-> "success", filepath |-> filepath,
                       html_path |-> html_path, html_content |-> html_template]
                 ELSE [status |-> "error", error |-> fault]]

\* delete_post without the os.path.exists tests: os.remove raises on a file
\* that is not there.
delete_post_without_exists(files, filepath, fault) ==
    LET html_path == HtmlPath(filepath)
        mdRaised == ~Exists(files, filepath) \/ fault = "remove_md"
        afterMd == IF mdRaised THEN files ELSE Remove(files, filepath)
        htmlRaised == ~mdRaised /\ (~Exists(afterMd, html_path) \/ fault = "remove_html")
        afterHtml == IF mdRaised \/ htmlRaised THEN afterMd
                     ELSE Remove(afterMd, html_path)
    IN  [files |-> afterHtml,
         ret |-> IF mdRaised \/ htmlRaised
                 THEN [status |-> "error", error |-> fault]
                 ELSE [status |-> "success"]]

\* delete_post(filepath)
delete_post(files, filepath, fault) ==
    LET afterMd == IF Exists(files, filepath) /\ fault # "remove_md"
                   THEN Remove(files, filepath) ELSE files
        mdRaised == Exists(files, filepath) /\ fault = "remove_md"
        html_path == HtmlPath(filepath)
        htmlRaised == ~mdRaised /\ Exists(afterMd, html_path) /\ fault = "remove_html"
        afterHtml == IF ~mdRaised /\ ~htmlRaised /\ Exists(afterMd, html_path)
                     THEN Remove(afterMd, html_path) ELSE afterMd
    IN  [files |-> afterHtml,
         ret |-> IF mdRaised \/ htmlRaised
                 THEN [status |-> "error", error |-> fault]
                 ELSE [status |-> "success"]]

(***************************************************************************)
(* The state machine.  The callers are the threads that serve the user     *)
(* interface; a generation is two steps (up to the try block, then the     *)
(* crew's run and the rest), since it holds no lock while the crew runs.   *)
(***************************************************************************)
NoCall == [op |-> "none"]
NoResult == [outcome |-> "none"]
Idle == [pc |-> "idle", result |-> NoResult]

Init ==
    /\ fs = <<>>
    /\ llm_temperature = InitialTemperature
    /\ clock = 0
    /\ calls = [t \in Threads |-> Idle]
    /\ posts = <<>>
    /\ nOps = 0
    /\ last = NoCall

\* generate_blog_post up to the try block: the temperature is set, the tasks
\* and the crew are built; an exception raised here leaves the method.
GenBegin(t) ==
    /\ nOps < MaxOps
    /\ calls[t].pc = "idle"
    /\ \A u \in Threads : u < t => calls[u].pc # "idle"
    /\ \E request \in Requests, fault \in {"none", "build"} :
          /\ llm_temperature' = request.temperature
          /\ calls' = [calls EXCEPT ![t] =
                IF fault = "build"
                THEN [pc |-> "idle", request |-> request,
                      result |-> [outcome |-> "raised", exception |-> fault]]
                ELSE [pc |-> "kickoff", request |-> request,
                      tasks |-> _create_tasks(request.topic, request.focus,
                                              request.tone, request.length),
                      result |-> NoResult]]
    /\ nOps' = nOps + 1
    /\ UNCHANGED <<fs, clock, posts, last>>

\* The try block and its except branch: crew.kickoff(), in which the agents
\* run with the llm object as it is now, then the cleanup, the image lookup,
\* the header, the table of contents and the two files.
GenRun(t) ==
    /\ calls[t].pc = "kickoff"
    /\ \E result \in CrewResults, now \in clock..(clock + 1),
          image_url \in default_images, fault \in {"kickoff"} \cup GenFaults :
          \E r \in {FinishGeneration(fs, calls[t].request, ExtractContent(result),
                                     image_url, now, fault)} :
              /\ now <= MaxClock
              /\ clock' = now
              /\ fs' = r.files
              /\ posts' = IF fault = "none"
                          THEN Append(posts, [topic |-> r.ret.topic,
                                              filepath |-> r.ret.filepath,
                                              html_path |-> r.ret.html_path])
                          ELSE posts
              /\ calls' = [calls EXCEPT ![t] =
                    [pc |-> "idle", request |-> calls[t].request,
                     crew_temperature |-> llm_temperature,
                     result |-> [outcome |-> "returned", value |-> r.ret]]]
    /\ UNCHANGED <<llm_temperature, nOps, last>>

Load ==
    /\ nOps < MaxOps
    /\ \E filepath \in PathInputs, fault \in LoadFaults :
          /\ fault = "read" => Exists(fs, filepath)
          /\ last' = [op |-> "load", filepath |-> filepath,
                      before |-> fs,
                      ret |-> load_post_for_editing(fs, filepath, fault),
                      ui |-> load_post(fs, filepath, fault)]
    /\ nOps' = nOps + 1
    /\ UNCHANGED <<fs, llm_temperature, clock, calls, posts>>

Save ==
    /\ nOps < MaxOps
    /\ \E filepath \in PathInputs, content \in ContentInputs, fault \in SaveFaults :
          \E r \in {save_edited_post(fs, filepath, content, fault)} :
              /\ fs' = r.files
              /\ last' = [op |-> "save", filepath |-> filepath, content |-> content,
                          before |-> fs, after |-> r.files, ret |-> r.ret]
    /\ nOps' = nOps + 1
    /\ UNCHANGED <<llm_temperature, clock, calls, posts>>

Delete ==
    /\ nOps < MaxOps
    /\ \E filepath \in PathInputs, fault \in DeleteFaults :
          \E r \in {delete_post(fs, filepath, fault)} :
              /\ fault # "none" => r.ret.status = "error"
              /\ fs' = r.files
              /\ last' = [op |-> "delete", filepath |-> filepath,
                          html_path |-> HtmlPath(filepath),
                          before |-> fs, after |-> r.files, ret |-> r.ret]
    /\ nOps' = nOps + 1
    /\ UNCHANGED <<llm_temperature, clock, calls, posts>>

Next ==
    \/ \E t \in Threads : GenBegin(t)
    \/ \E t \in Threads : GenRun(t)
    \/ Load
    \/ Save
    \/ Delete

Spec == Init /\ [][Next]_vars

(***************************************************************************)
(* search_web.  The network is an argument: what requests.post does (an    *)
(* exception of the requests library, or a response with a status and the  *)
(* value its JSON body decodes to).  A JSON object is a record, a list a   *)
(* sequence; an item of the result list is a dict with members or a value  *)
(* of another type.                                                        *)
(***************************************************************************)
MaxResults == 5

\* item.get(key, default)
Get(item, key, default) ==
    IF key \in DOMAIN item.members THEN item.members[key] ELSE default

\* the f-string returned when there is no API key
MockResults(query) ==
    <<"Mock search results for '">> \o query
        \o <<"':", LF, "1. Title: ">> \o query
        \o <<" - An Overview", LF, "Snippet: This is a mock result ...", LF,
             "URL: https://example.com", LF, LF, "2. Title: Recent Developments in ">>
        \o query
        \o <<LF, "Snippet: Mock data ...", LF, "URL: https://example.com", LF>>

SearchFailed(query) ==
    <<"The search for '">> \o query \o <<"' failed due to a network or API error.">>

NoResults(query) ==
    <<"No relevant search results were found for '">> \o query \o <<"'.">>

\* formatted_result of one item
FormatResult(item) ==
    <<"Title: ">> \o Get(item, "title", <<"No title">>) \o <<LF>>
        \o <<"Snippet: ">> \o Get(item, "snippet", <<"No snippet">>) \o <<LF>>
        \o <<"URL: ">> \o Get(item, "link", <<"#">>) \o <<LF, LF>>

\* params, with the time period the date range selects
SearchParams(query, date_range) ==
    LET base == [q |-> query, gl |-> "us", hl |-> "en", num |-> MaxResults]
        With(period) == [q |-> query, gl |-> "us", hl |-> "en", num |-> MaxResults,
                         timePeriod |-> period]
    IN  CASE date_range = "last_week" -> With("custom:7 days ago:today")
          [] date_range = "last_month" -> With("m1")
          [] date_range = "last_year" -> With("y1")
          [] date_range \in {"1m", "2m", "3m", "4m", "5m", "6m"} ->
                 With("custom:30 days * months ago:today")
          [] OTHER -> base

RECURSIVE JoinResults(_)
\* "\n".join(formatted_results)
JoinResults(formatted_results) ==
    IF formatted_results = <<>> THEN <<>>
    ELSE IF Len(formatted_results) = 1 THEN formatted_results[1]
    ELSE formatted_results[1] \o <<LF>> \o JoinResults(Tail(formatted_results))

\* search_web(query, date_range) of a generator with the given API key.
\* requests is the sequence of requests posted.
search_web(serper_api_key, query, date_range, net) ==
    IF serper_api_key \in {None, ""}
    THEN [outcome |-> "returned", value |-> MockResults(query), requests |-> <<>>]
    ELSE LET posted == <<SearchParams(query, date_range)>>
         IN  IF net.kind # "response" \/ net.status >= 400
             THEN [outcome |-> "returned", value |-> SearchFailed(query),
                   requests |-> posted]
             ELSE IF net.json.kind = "null"
             THEN [outcome |-> "raised", exception |-> "TypeError", requests |-> posted]
             ELSE IF "organic" \notin DOMAIN net.json.members
             THEN [outcome |-> "returned", value |-> NoResults(query),
                   requests |-> posted]
             ELSE LET organic == net.json.members.organic
                      items == SubSeq(organic, 1,
                                      IF Len(organic) < MaxResults THEN Len(organic)
                                                                   ELSE MaxResults)
                  IN  IF \E i \in DOMAIN items : ~items[i].dict
                      THEN [outcome |-> "raised", exception |-> "AttributeError",
                            requests |-> posted]
                      ELSE IF items = <<>>
                      THEN [outcome |-> "returned", value |-> NoResults(query),
                            requests |-> posted]
                      ELSE [outcome |-> "returned",
                            value |-> JoinResults([i \in DOMAIN items |-> FormatResult(items[i])]),
                            requests |-> posted]

(***************************************************************************)
(* The text functions on their own: a behaviour applies one of them to an  *)
(* input drawn from a bounded set and records the call in last.            *)
(***************************************************************************)
MaxTextLen == 3

\* the texts of at most n characters over the alphabet A
Texts(A, n) == UNION {[1..k -> A] : k \in 0..n}

SlugAlphabet == {"A", "b", SP, "-", "!", "_", CapitalIDot}

\* clean_topic of a topic, slug of a heading title
SlugCall ==
    /\ last = NoCall
    /\ \E text \in Texts(SlugAlphabet, MaxTextLen) :
          last' = [op |-> "slug", text |-> text, ret |-> Slug(text)]
    /\ UNCHANGED <<fs, llm_temperature, clock, calls, posts, nOps>>

MaxLines == 3

RECURSIVE JoinLines(_)
\* "\n".join(lines)
JoinLines(lines) ==
    IF lines = <<>> THEN <<>>
    ELSE IF Len(lines) = 1 THEN lines[1]
    ELSE lines[1] \o <<LF>> \o JoinLines(Tail(lines))

\* Lines of a draft: headings of the levels 1 to 5, text, an empty line, the
\* heading of a table of contents, hashes with nothing after them, hashes with
\* no space after them, a heading with punctuation and capitals in its title.
TocLines ==
    { <<>>,
      <<"x">>,
      <<"#", SP, "T">>,
      <<"#", "#", SP, "A">>,
      <<"#", "#", "#", SP, "B">>,
      <<"#", "#", "#", "#", SP, SP, "C", SP, "d", "!">>,
      <<"#", "#", "#", "#", "#", SP, "E">>,
      <<"#", "#">>,
      <<"#", "#", "F">>,
      TocHeading }

\* the "Add table of contents" step of generate_blog_post
TocCall ==
    /\ last = NoCall
    /\ \E lines \in Texts(TocLines, MaxLines), add_toc \in BOOLEAN :
          \E text \in {JoinLines(lines)} :
              last' = [op |-> "toc", text |-> text, add_toc |-> add_toc,
                       ret |-> AddToc(text, add_toc)]
    /\ UNCHANGED <<fs, llm_temperature, clock, calls, posts, nOps>>

\* a text of n characters
Pad(n) == [i \in 1..n |-> "x"]

\* Cleaned texts entering the header step: short ones, one with the featured
\* image already in it, one that names the words without the image markup, and
\* texts around a reading time of six minutes.
HeaderContents ==
    { <<>>,
      <<"#", "#", SP, "A", LF, "x">>,
      FeaturedImageMarker \o <<"(", "u", ")", LF, "x">>,
      <<"F", "e", "a", "t", "u", "r", "e", "d", SP, "I", "m", "a", "g", "e">>,
      Pad(6 * CharsPerMinute - 1),
      Pad(6 * CharsPerMinute),
      Pad(7 * CharsPerMinute + 1) }

\* the header step of generate_blog_post
HeaderCall ==
    /\ last = NoCall
    /\ \E content \in HeaderContents, request \in Requests,
          image_url \in default_images, now \in 0..MaxClock :
          last' = [op |-> "header", content |-> content, topic |-> request.topic,
                   image_url |-> image_url, published |-> StrftimeDate(now),
                   ret |-> AddHeader(content, request.topic, image_url, StrftimeDate(now))]
    /\ UNCHANGED <<fs, llm_temperature, clock, calls, posts, nOps>>

\* Openings of texts given to the validation: nothing, plain text, an image,
\* an image with a relative address, a plain hyperlink, a heading, and an
\* exclamation mark with a bracket that is no image.
ValidateOpenings ==
    { <<>>,
      <<"x", SP, "y">>,
      <<"!", "[", "a", "]", "(", "h", "t", "t", "p", ":", "/", "/", "u", ")">>,
      <<"!", "[", "a", "]", "(", "u", ".", "p", "n", "g", ")">>,
      <<"[", "a", "]", "(", "h", "t", "t", "p", ":", "/", "/", "u", ")">>,
      <<"#", SP, "T", LF>>,
      <<"a", "!", "[">> }

\* the opening o, filled up to n characters when it is shorter
FilledTo(o, n) == o \o Pad(n - Len(o))

ValidateContents ==
    { FilledTo(o, n) : o \in ValidateOpenings,
                       n \in {0, MinContentLength - 1, MinContentLength,
                              MinContentLength + 1} }

\* _validate_content(content)
ValidateCall ==
    /\ last = NoCall
    /\ \E content \in ValidateContents :
          last' = [op |-> "validate", content |-> content,
                   ret |-> _validate_content(content)]
    /\ UNCHANGED <<fs, llm_temperature, clock, calls, posts, nOps>>

BodyAlphabet == {BT, "H", SP, LF}

\* A whole document wrapped in a fence with the tag markdown, around a body
\* without a fence; the line breaks inside the fence may be missing.
WrappedDocuments ==
    { [kind |-> "wrapped", body |-> body,
       content |-> FenceMarkdown \o sep \o body \o sep \o Fence] :
          body \in {b \in Texts(BodyAlphabet, MaxTextLen) : ~Contains(b, Fence)},
          sep \in {<<>>, <<LF>>} }

\* A document with a code block inside it, its opener carrying a language
\* tag.
DocumentsWithBlock ==
    { [kind |-> "block", before |-> before, code |-> code, after |-> after,
       content |-> before \o Fence \o tag \o <<LF>> \o code \o <<LF>> \o Fence \o after] :
          before \in {<<>>, <<"I", "n", "t", "r", "o", LF>>},
          tag \in {<<"p", "y", "t", "h", "o", "n">>, <<"j", "s">>},
          code \in {<<"p", "r", "i", "n", "t", "(", "1", ")">>, <<"x", SP, "=", SP, "1", LF, "y">>},
          after \in {<<>>, <<LF, "E", "n", "d">>} }

\* _clean_markdown(content)
CleanCall ==
    /\ last = NoCall
    /\ \E input \in WrappedDocuments \cup DocumentsWithBlock :
          last' = [op |-> "clean", input |-> input,
                   ret |-> _clean_markdown(input.content)]
    /\ UNCHANGED <<fs, llm_temperature, clock, calls, posts, nOps>>

\* os.getenv('SERPER_API_KEY'): unset, empty, set
ApiKeys == {None, "", "k"}

\* Items of the result list: a dict with all members, a dict with a title
\* only, and a value that is no dict.
ResultItems ==
    { [dict |-> TRUE,
       members |-> [title |-> <<"T">>, snippet |-> <<"S">>, link |-> <<"L">>]],
      [dict |-> TRUE, members |-> [title |-> <<"U">>]],
      [dict |-> FALSE] }

\* What the body of a response decodes to: null, an object without the member
\* organic, and objects whose organic list is short, or longer than the
\* number of results asked for.
JsonBodies ==
    { [kind |-> "null"],
      [kind |-> "object", members |-> [credits |-> 1]] }
    \cup { [kind |-> "object", members |-> [organic |-> items]] :
               items \in Texts(ResultItems, MaxTextLen)
                   \cup { [i \in 1..(MaxResults + 2) |->
                              IF i <= MaxResults
                              THEN [dict |-> TRUE, members |-> [title |-> IntToStr(i)]]
                              ELSE last_item] : last_item \in ResultItems } }

NetOutcomes ==
    { [kind |-> "ConnectionError"], [kind |-> "Timeout"] }
    \cup { [kind |-> "response", status |-> status, json |-> json] :
               status \in {200, 500}, json \in JsonBodies }

\* search_web(query, date_range), as the agents' tool calls it
SearchCall ==
    /\ last = NoCall
    /\ \E serper_api_key \in ApiKeys, request \in Requests,
          date_range \in {None, "last_week", "3m"}, net \in NetOutcomes :
          last' = [op |-> "search", serper_api_key |-> serper_api_key,
                   query |-> request.topic, date_range |-> date_range, net |-> net,
                   ret |-> search_web(serper_api_key, request.topic, date_range, net)]
    /\ UNCHANGED <<fs, llm_temperature, clock, calls, posts, nOps>>

\* date_range_map of generate_blog_post_wrapper: the values a label of the
\* dropdown may be mapped to, three of them.
DateRanges == {None, "last_month", "3m"}

\* The requests of the user interface: those of Requests at every date range,
\* with and without seo_optimized.
GenRequests ==
    { [request EXCEPT !.date_range = date_range, !.seo_optimized = seo_optimized] :
          request \in Requests, date_range \in DateRanges, seo_optimized \in BOOLEAN }

\* Texts the crew may hand back: plain text, a document wrapped in a fence
\* with the tag markdown, a technical text with a code block, a technical term
\* in capitals, a code block in a text without a technical term, backticks
\* around a fence with the tag markdown, and two texts longer than the minimum
\* length: one with a heading, an image and a citation, one with a technical
\* term and a code block.
PipelineTexts ==
    { <<"h", "i">>,
      <<BT, BT, BT, "m", "a", "r", "k", "d", "o", "w", "n", LF, "#", "#", SP, "A", LF, "#", "#", "#", SP, "B", LF, BT, BT, BT>>,
      <<"U", "s", "e", SP, "P", "y", "t", "h", "o", "n", LF, BT, BT, BT, "p", "y", "t", "h", "o", "n", LF, "p", "r", "i", "n", "t", "(", "1", ")", LF, BT, BT, BT>>,
      <<"C", "O", "D", "E">>,
      <<"I", "n", "t", "r", "o", LF, BT, BT, BT, "j", "s", LF, "x", LF, BT, BT, BT>>,
      <<BT, BT, BT, BT, BT, "m", "a", "r", "k", "d", "o", "w", "n", BT, "x">>,
      FilledTo(<<"#", SP, "T", LF, "!", "[", "a", "]", "(", "h", "t", "t", "p", ":", "/", "/", "u", ")", LF, "[", "1", "]", LF>>, MinContentLength + 1),
      FilledTo(<<"#", "#", SP, "J", "a", "v", "a", "S", "c", "r", "i", "p", "t", LF, BT, BT, BT, "j", "s", LF, "x", LF, BT, BT, BT, LF>>, MinContentLength + 1) }

PipelineOutputs ==
    { [raw_output |-> text, str |-> <<"CrewOutput">>] : text \in PipelineTexts }

\* generate_blog_post(topic, focus, date_range, add_toc, seo_optimized, tone,
\* length, temperature) as one call with no other call running: the steps
\* of GenBegin and GenRun one after the other.
GenerateCall ==
    /\ last = NoCall
    /\ \E request \in GenRequests, result \in PipelineOutputs,
          now \in clock..(clock + 1), image_url \in default_images,
          fault \in {"build", "kickoff"} \cup GenFaults :
          \E r \in {FinishGeneration(fs, request, ExtractContent(result),
                                     image_url, now, fault)} :
              /\ llm_temperature' = request.temperature
              /\ clock' = IF fault = "build" THEN clock ELSE now
              /\ fs' = IF fault = "build" THEN fs ELSE r.files
              /\ posts' = IF fault # "build" /\ "filepath" \in DOMAIN r.ret
                          THEN Append(posts, [topic |-> r.ret.topic,
                                              filepath |-> r.ret.filepath,
                                              html_path |-> r.ret.html_path])
                          ELSE posts
              /\ last' = [op |-> "generate", request |-> request,
                          raw |-> ExtractContent(result), image_url |-> image_url,
                          now |-> now, fault |-> fault, before |-> fs,
                          after |-> IF fault = "build" THEN fs ELSE r.files,
                          tasks |-> IF fault = "build" THEN <<>>
                                    ELSE _create_tasks(request.topic, request.focus,
                                                       request.tone, request.length),
                          result |-> IF fault = "build"
                                     THEN [outcome |-> "raised", exception |-> fault]
                                     ELSE [outcome |-> "returned", value |-> r.ret]]
    /\ UNCHANGED <<calls, nOps>>

TextNext ==
    \/ SlugCall
    \/ TocCall
    \/ HeaderCall
    \/ ValidateCall
    \/ CleanCall
    \/ SearchCall
    \/ GenerateCall

TextSpec == Init /\ [][TextNext]_vars

(***************************************************************************)
(* Properties of the model.  last holds the latest call of the post       *)
(* store: its arguments, the files before and after it, and what it        *)
(* returned.                                                               *)
(***************************************************************************)
SaveSucceeded == last.op = "save" /\ last.ret.status = "success"
DeleteSucceeded == last.op = "delete" /\ last.ret.status = "success"

\* The content path and the rendered path of one post: the same directory and
\* base name, the extensions .md and .html.
PairedPaths(content_path, rendered_path) ==
    \E stem \in {SubSeq(content_path, 1, Len(content_path) - Len(DotMd))} :
        /\ content_path = stem \o DotMd
        /\ rendered_path = stem \o DotHtml

\* C1: generate_blog_post never raises to its caller; an exception raised at
\* any point of the call, the building of the tasks and the crew included, ends
\* in a returned record.
C1_NeverRaises ==
    \A t \in Threads : calls[t].result.outcome # "raised"

\* C2: _create_tasks returns exactly five tasks, in the order researcher,
\* writer, fact_checker, editor, illustrator, and the context of the editor's
\* task contains the writer's task and the fact checker's task.
C2_FiveTasksInRoleOrder ==
    \A t \in Threads :
        calls[t].pc = "kickoff" =>
            LET tasks == calls[t].tasks
            IN  /\ Len(tasks) = 5
                /\ [i \in 1..5 |-> tasks[i].agent]
                       = <<"researcher", "writer", "fact_checker", "editor", "illustrator">>
                /\ {tasks[2].name, tasks[3].name} \subseteq Range(tasks[4].context)
                /\ tasks[2].name # tasks[3].name

C2_Witness ==
    \E t, u \in Threads :
        /\ calls[t].pc = "kickoff" /\ calls[u].pc = "kickoff"
        /\ calls[t].request.focus # calls[u].request.focus
        /\ calls[t].request.tone # calls[u].request.tone
        /\ calls[t].request.length # calls[u].request.length

\* C3: in the task list every context refers only to tasks strictly earlier in
\* the list, and the dependencies are exactly: research on nothing, write on
\* research, fact check on write, edit on write and fact check, illustrate on
\* edit.
C3_ContextsReferBackwards ==
    \A t \in Threads :
        calls[t].pc = "kickoff" =>
            LET tasks == calls[t].tasks
                Earlier(i) == {tasks[j].name : j \in 1..(i - 1)}
            IN  /\ \A i, j \in DOMAIN tasks : tasks[i].name = tasks[j].name => i = j
                /\ \A i \in DOMAIN tasks : Range(tasks[i].context) \subseteq Earlier(i)
                /\ [i \in DOMAIN tasks |-> Range(tasks[i].context)]
                       = <<{}, {tasks[1].name}, {tasks[2].name},
                           {tasks[2].name, tasks[3].name}, {tasks[4].name}>>
                /\ \A i \in DOMAIN tasks : Len(tasks[i].context) = Cardinality(Range(tasks[i].context))

C3_Witness ==
    \E t \in Threads :
        /\ calls[t].pc = "kickoff"
        /\ Len(calls[t].tasks[4].context) = 2
        /\ calls[t].request.topic = <<"a", "i", "!">>

\* C4: for every content path that generate_blog_post, save_edited_post and
\* delete_post handle, the rendered path the operation uses has the same
\* directory and base name and differs only by the extension; the two paths
\* are never equal.
C4_RenderedPathPaired ==
    /\ \A i \in DOMAIN posts :
           /\ PairedPaths(posts[i].filepath, posts[i].html_path)
           /\ posts[i].filepath # posts[i].html_path
    /\ SaveSucceeded =>
           /\ PairedPaths(last.filepath, last.ret.html_path)
           /\ last.filepath # last.ret.html_path
    /\ DeleteSucceeded =>
           /\ PairedPaths(last.filepath, last.html_path)
           /\ last.filepath # last.html_path

\* C5: for any path P and content C, after save_edited_post(P, C) reports
\* success, load_post_for_editing(P) returns exactly C.
C5_SaveLoadRoundTrip ==
    SaveSucceeded =>
        load_post_for_editing(last.after, last.filepath, "none")
            = [outcome |-> "returned", value |-> last.content]

\* C6: after every save_edited_post(P, C) that reports success, the rendered
\* file the operation pairs with P holds the rendering of C, also when the
\* file held the rendering of an earlier content before.
C6_RenderedFileIsOfSavedContent ==
    SaveSucceeded =>
        /\ Exists(last.after, last.ret.html_path)
        /\ last.after[last.ret.html_path]
               = WriteText(HtmlTemplate(EditedTitle, Markdown(last.content)))
        /\ last.ret.html_content = HtmlTemplate(EditedTitle, Markdown(last.content))

C6_Witness ==
    /\ SaveSucceeded
    /\ Exists(last.before, last.filepath)
    /\ Exists(last.before, last.ret.html_path)
    /\ last.filepath # last.ret.html_path
    /\ ReadText(last.before[last.filepath]) # ReadText(last.after[last.filepath])
    /\ last.before[last.ret.html_path] # last.after[last.ret.html_path]
    /\ last.before[last.ret.html_path]
           = WriteText(HtmlTemplate(EditedTitle, Markdown(ReadText(last.before[last.filepath]))))

\* C7: delete_post removes the content file and the rendered file when they
\* exist and leaves every other file alone; on a path for which neither file
\* exists, a second delete of the same path included, it returns the status
\* success and changes nothing.
C7_DeleteIdempotent ==
    /\ DeleteSucceeded =>
           /\ ~Exists(last.after, last.filepath)
           /\ ~Exists(last.after, last.html_path)
           /\ \A q \in DOMAIN last.before \ {last.filepath, last.html_path} :
                  Exists(last.after, q) /\ last.after[q] = last.before[q]
           /\ DOMAIN last.after \subseteq DOMAIN last.before
    /\ (/\ last.op = "delete"
        /\ ~Exists(last.before, last.filepath)
        /\ ~Exists(last.before, last.html_path)) =>
           /\ last.ret = [status |-> "success"]
           /\ last.after = last.before
    /\ DeleteSucceeded =>
           delete_post(last.after, last.filepath, "none")
               = [files |-> last.after, ret |-> [status |-> "success"]]

\* A delete that removed both files of a post, after which another delete of
\* the same path finds neither.
C7_Witness ==
    /\ DeleteSucceeded
    /\ Exists(last.before, last.filepath)
    /\ Exists(last.before, last.html_path)
    /\ last.filepath # last.html_path
    /\ delete_post(last.after, last.filepath, "none").ret.status = "success"

\* C8: load_post_for_editing on a path at which no file exists fails with a
\* NotFound error; it returns no text to the caller.
C8_LoadAbsentFails ==
    (last.op = "load" /\ ~Exists(last.before, last.filepath)) =>
        last.ret.outcome = "raised"

\* C9: the model configuration a generate_blog_post call runs with, the
\* temperature included, is the one of its own request; no other call changes
\* it.
C9_TemperatureOfOwnRequest ==
    \A t \in Threads :
        "crew_temperature" \in DOMAIN calls[t] =>
            calls[t].crew_temperature = calls[t].request.temperature

\* C10: any two generate_blog_post calls that both succeed produce different
\* content paths, whatever their topics and call times.
C10_DistinctContentPaths ==
    \A i, j \in DOMAIN posts :
        i # j => posts[i].filepath # posts[j].filepath

\* C11: slug derivation is idempotent: for every string s, the slug of the
\* slug of s is the slug of s.
C11_SlugIdempotent ==
    last.op = "slug" => Slug(last.ret) = last.ret

\* C12: when the text entering the table of contents step already contains a
\* "## Table of Contents" heading, the step leaves the text unchanged, with
\* add_toc true or false.
C12_TocPresentNoChange ==
    (last.op = "toc" /\ Contains(last.text, TocHeading)) => last.ret = last.text

\* A call with add_toc set on a text that has the heading of a table of
\* contents and a level-2 heading after which one would be inserted.
C12_Witness ==
    /\ last.op = "toc"
    /\ last.add_toc
    /\ Contains(last.text, TocHeading)
    /\ Contains(last.text, <<"#", "#", SP, "A">>)
    /\ last.ret = last.text

\* A heading line of a level from lo to hi starts at position i: the line is
\* that many hashes, white space, and text up to its end.
HeadingLineAt(s, i, lo, hi) ==
    LET n == HashRun(s, i)
    IN  /\ AtLineStart(s, i)
        /\ lo <= n /\ n <= hi
        /\ i + n <= Len(s)
        /\ IsSpace(s[i + n]) /\ s[i + n] # LF
        /\ LineEnd(s, i) - (i + n) >= 2

HeadingLines(s, lo, hi) == {i \in 1..Len(s) : HeadingLineAt(s, i, lo, hi)}

\* ret is text with a table of contents inserted at the end of the line that
\* starts at position i, and all other text unchanged.
TocInsertedAfterLine(text, ret, i) ==
    LET e == LineEnd(text, i)
        k == Len(ret) - Len(text)
    IN  /\ k > 0
        /\ SubSeq(ret, 1, e - 1) = SubSeq(text, 1, e - 1)
        /\ From(ret, e + k) = From(text, e)
        /\ StartsWith(From(ret, e), <<LF, LF>> \o TocHeading \o <<LF, LF>>)

\* C13: when add_toc is set and no table of contents is present, the table is
\* inserted immediately after the first level-2 heading line if the text has
\* one, otherwise immediately after the first level-1 heading line; a text
\* with neither is left unchanged; the text before and after the insertion
\* point is unchanged.
C13_TocPlacement ==
    (last.op = "toc" /\ last.add_toc /\ ~Contains(last.text, TocHeading)) =>
        LET level2 == HeadingLines(last.text, 2, 2)
            level1 == HeadingLines(last.text, 1, 1)
        IN  /\ level2 # {} => TocInsertedAfterLine(last.text, last.ret, MinOf(level2))
            /\ (level2 = {} /\ level1 # {} /\ HeadingLines(last.text, 3, 4) # {}) =>
                   TocInsertedAfterLine(last.text, last.ret, MinOf(level1))
            /\ (level2 = {} /\ level1 = {}) => last.ret = last.text

RECURSIVE BlankRun(_, _)
\* the number of white space characters other than "\n" from position i on
BlankRun(s, i) ==
    IF i <= Len(s) /\ IsSpace(s[i]) /\ s[i] # LF THEN 1 + BlankRun(s, i + 1) ELSE 0

\* The text of the heading line that starts at position i: what follows the
\* hashes and the white space after them on that line (the last white space
\* character when nothing else follows).
HeadingText(s, i) ==
    LET n == HashRun(s, i)
        w == BlankRun(s, i + n)
        e == LineEnd(s, i)
        q == IF i + n + w = e THEN e - 1 ELSE i + n + w
    IN  SubSeq(s, q, e - 1)

RECURSIVE EntriesOfHeadingLines(_, _)
\* One list entry per heading line of level 2 to 4 from position i on, in
\* document order: (level - 2) units of indentation, the heading text, and a
\* link to "#" followed by its slug.
EntriesOfHeadingLines(s, i) ==
    LET at == {k \in HeadingLines(s, 2, 4) : k >= i}
    IN  IF at = {} THEN <<>>
        ELSE LET k == MinOf(at)
                 title == HeadingText(s, k)
             IN  Indent(HashRun(s, k) - 2) \o <<"-", SP, "[">> \o title
                     \o <<"]", "(", "#">> \o Slug(title) \o <<")", LF>>
                     \o EntriesOfHeadingLines(s, LineEnd(s, k))

\* C14: the generated table of contents has exactly one list entry per
\* heading line of level 2, 3 or 4, in document order, indented by the level
\* less two units and linking to "#" followed by the slug of the heading
\* text.
C14_TocEntries ==
    (last.op = "toc" /\ last.ret # last.text) =>
        LET toc == TocHeading \o <<LF, LF>> \o EntriesOfHeadingLines(last.text, 1) \o <<LF>>
        IN  /\ Len(last.ret) = Len(last.text) + 2 + Len(toc)
            /\ Contains(last.ret, <<LF, LF>> \o toc)

\* C15: when the cleaned text does not contain the featured image marker, the
\* text after the header step is the title line "# " and the topic, the
\* metadata line with the reading time max(5, length of the cleaned text
\* div 1000), the image reference to the looked-up URL, and then the cleaned
\* text; when the marker is present the step changes nothing.
C15_Header ==
    last.op = "header" =>
        IF Contains(last.content, FeaturedImageMarker)
        THEN last.ret = last.content
        ELSE LET n == Len(last.content) \div 1000
                 minutes == IF n > 5 THEN n ELSE 5
             IN  last.ret =
                     <<"#", SP>> \o last.topic \o <<LF, LF>>
                         \o <<">", SP, "**Reading time:**", SP>> \o IntToStr(minutes)
                         \o <<SP, "min | **Difficulty:** Intermediate | **Published:**", SP>>
                         \o last.published \o <<LF, LF>>
                         \o <<"!", "[", "F", "e", "a", "t", "u", "r", "e", "d", SP,
                              "I", "m", "a", "g", "e", "]", "(">>
                         \o last.image_url \o <<")", LF, LF>>
                         \o last.content

\* A header put before a text of 5999 characters, whose reading time is the
\* minimum of five minutes.
C15_Witness ==
    /\ last.op = "header"
    /\ Len(last.content) = 5999
    /\ Len(last.ret) > Len(last.content)
    /\ Contains(SubSeq(last.ret, 1, Len(last.ret) - Len(last.content)), <<SP, "5", SP>>)

\* C16: _validate_content reports the length issue for every text of fewer
\* than 1000 characters and for no text of 1000 characters or more.
C16_LengthIssue ==
    last.op = "validate" =>
        (TooShort \in Range(last.ret) <=> Len(last.content) < 1000)

\* A text of exactly 1000 characters, validated without the length issue.
C16_Witness ==
    /\ last.op = "validate"
    /\ Len(last.content) = 1000
    /\ TooShort \notin Range(last.ret)

\* Image markup: an exclamation mark and an opening bracket, and later a
\* closing bracket with an opening parenthesis.
HasImageMarkup(s) ==
    \E i \in Occurrences(s, <<"!", "[">>), j \in Occurrences(s, <<"]", "(">>) : i + 1 < j

\* C17: _validate_content reports the issue of no images for every text that
\* contains no image markup and only for such texts; a plain hyperlink is no
\* image.
C17_NoImagesIssue ==
    last.op = "validate" =>
        (NoImages \in Range(last.ret) <=> ~HasImageMarkup(last.content))

\* C18: _clean_markdown removes a code fence that wraps the whole document:
\* for a body without fences, cleaning the opening fence with the tag
\* markdown, the body and the closing fence returns the body trimmed.
C18_WrappingFenceRemoved ==
    (last.op = "clean" /\ last.input.kind = "wrapped") =>
        last.ret = Strip(last.input.body)

\* The document of the example: the fence with the tag markdown, a line
\* break, a body with white space to trim, a line break, the closing fence.
C18_Witness ==
    /\ last.op = "clean"
    /\ last.input.kind = "wrapped"
    /\ last.input.content = FenceMarkdown \o <<LF, "H", SP, LF>> \o Fence
    /\ last.ret = <<"H">>

\* C19: _clean_markdown keeps a code block inside the document: a fenced
\* block whose opener carries a language tag is returned with bare opening and
\* closing fences around the same code, only the language tag removed.
C19_InnerBlockKept ==
    (last.op = "clean" /\ last.input.kind = "block") =>
        last.ret = Strip(last.input.before \o Fence \o <<LF>> \o last.input.code
                             \o <<LF>> \o Fence \o last.input.after)

\* C20: search_web never raises: with no search credential it returns the
\* mock block without any network request; with a credential, every failure
\* of the request or of handling its response yields a returned failure
\* message, and a successful response yields at most 5 formatted result
\* blocks.
C20_SearchNeverRaises ==
    last.op = "search" =>
        /\ last.ret.outcome = "returned"
        /\ last.serper_api_key \in {None, ""} =>
               /\ last.ret.value = MockResults(last.query)
               /\ last.ret.requests = <<>>
        /\ (last.serper_api_key \notin {None, ""}
               /\ (last.net.kind # "response" \/ last.net.status >= 400)) =>
               last.ret.value = SearchFailed(last.query)
        /\ Cardinality(Occurrences(last.ret.value, <<"Title: ">>)) <= 5

\* C21: the validation never stops a generation: when no step of the call
\* raises, whatever issues _validate_content reports of the cleaned text, the
\* header and the table of contents are added, both files are written, and the
\* record returned has no error and carries exactly those issues.
C21_ValidationNeverStops ==
    (last.op = "generate" /\ last.fault = "none") =>
        LET content == _clean_markdown(last.raw)
            value == last.result.value
        IN  /\ last.result.outcome = "returned"
            /\ "error" \notin DOMAIN value
            /\ value.validation_issues = _validate_content(content)
            /\ value.content =
                  AddToc(AddHeader(content, last.request.topic, last.image_url,
                                   StrftimeDate(last.now)),
                         last.request.add_toc)
            /\ Contains(value.content, FeaturedImageMarker)
            /\ Exists(last.after, value.filepath)
            /\ last.after[value.filepath] = WriteText(value.content)
            /\ Exists(last.after, value.html_path)
            /\ last.after[value.html_path] = WriteText(value.html_content)

\* a generation of a text with four issues that wrote its two files
C21_Witness ==
    /\ last.op = "generate"
    /\ last.fault = "none"
    /\ last.result.outcome = "returned"
    /\ Len(last.result.value.validation_issues) >= 4
    /\ NoCodeExamples \in Range(last.result.value.validation_issues)
    /\ Exists(last.after, last.result.value.filepath)
    /\ Exists(last.after, last.result.value.html_path)

\* The content paths the calls of the model may write or delete.
ContentPaths ==
    PathInputs \cup { FilePath(request.topic, now) :
                          request \in Requests, now \in 0..MaxClock }

\* C22: after any sequence of generations, saves and deletions, each of which
\* may fail at any of its file operations, every content file that
\* list_generated_posts returns has its rendered file, and no rendered file is
\* left without its content file (the rendered path being the one the code
\* derives from the content path).
C22_PairingInvariant ==
    /\ \A path \in list_generated_posts(fs) : Exists(fs, HtmlPath(path))
    /\ \A path \in ContentPaths :
          (HtmlPath(path) # path /\ Exists(fs, HtmlPath(path))) => Exists(fs, path)

\* C23: date_range and seo_optimized have no effect on generate_blog_post: a
\* call that differs from the one made only in these two arguments builds the
\* same tasks and, for the same text of the crew, image and clock reading,
\* writes the same files and returns the same record.
C23_DateRangeAndSeoHaveNoEffect ==
    (last.op = "generate" /\ last.fault # "build") =>
        \A date_range \in DateRanges, seo_optimized \in BOOLEAN :
            LET other == [last.request EXCEPT !.date_range = date_range,
                                              !.seo_optimized = seo_optimized]
                r == FinishGeneration(last.before, other, last.raw,
                                      last.image_url, last.now, last.fault)
            IN  /\ _create_tasks(other.topic, other.focus, other.tone, other.length)
                      = last.tasks
                /\ r.ret = last.result.value
                /\ r.files = last.after

\* a generation with a date range and without seo_optimized that added a table
\* of contents and wrote its files
C23_Witness ==
    /\ last.op = "generate"
    /\ last.fault = "none"
    /\ last.request.date_range = "3m"
    /\ last.request.seo_optimized = FALSE
    /\ last.request.add_toc
    /\ Contains(last.result.value.content, TocHeading)
    /\ Len(last.tasks) = 5
    /\ Exists(last.after, last.result.value.html_path)

====
